---- MODULE Spec2Model ----
(***************************************************************************)
(* The asynchronous job lifecycle of the music-generation backend:         *)
(* the composition workflow (generate_music / get_status / download_music  *)
(* over the in-memory store `tasks`) and the voice-conversion workflow     *)
(* (upload_voice_conversion / process_voice_conversion /                   *)
(* get_voice_conversion_status / download_voice_conversion over            *)
(* `voice_conversion_jobs`), as written in src/main.py.                    *)
(*                                                                         *)
(* Every handler is an `async def` run on one event loop.  A handler or a  *)
(* background coroutine is atomic between two of its `await`s; only        *)
(* upload_voice_conversion awaits (the upload is read and written), so it  *)
(* is two actions, and process_voice_conversion, which never awaits, keeps *)
(* the loop from its first statement to its last: its stages are separate  *)
(* steps here, and no handler is enabled between them (LoopFree).          *)
(*                                                                         *)
(* Not modelled: the advisory `progress` and the `created_at` and          *)
(* `composition_plan` fields of a composition task, which no handler       *)
(* reads back into a decision.                                             *)
(***************************************************************************)
EXTENDS Integers, FiniteSets, Sequences, TLC

\* How many uuid4() values the process draws in one run.
MaxUuid == 1

\* The value the conversion poll reports while a job is processing.
ProcessingProgress == 50

Absent == "absent"
NoId == <<"none", 0>>

\* Identifiers a provider acknowledgment can carry, and those uuid4() returns.
ProviderIds == {<<"provider", 1>>}
Uuid(n) == <<"uuid", n>>
UuidIds == {Uuid(n) : n \in 1..MaxUuid}
\* An id no submit ever returned.
UnknownId == <<"unknown", 0>>

\* A status value that is not a string (an enum member, None): the store keeps
\* it, the response models reject it.
NonString == "non_string"
KnownStatuses == {"pending", "processing", "completed", "failed"}
RemoteStatuses == KnownStatuses \cup {"queued", NonString}

MsgCompleted == "Music generation completed"
MsgStarted == "Music generation started"
MsgFailedDefault == "Music generation failed"
MsgRemote == "remote failure text"
MsgNotAvailable == "Status checking not available - assuming processing"
MsgErrorChecking == "Error checking status: Failed to check composition status"
MsgTaskNotFound == "Task not found"
MsgClientMissing == "ElevenLabs client not initialized"
MsgTaskNotCompleted == "Task not completed"
MsgSubmitFailed == "Failed to submit composition to ElevenLabs"
MsgRetrieveFailed == "Failed to retrieve audio"
MsgInternalError == "Internal Server Error"

VARIABLES
    elevenlabs_client,      \* TRUE iff ElevenLabsClient() was constructed at import
    rvc_client,             \* TRUE iff RVCClient() loaded a model (is_available())
    sdk,                    \* whether the installed SDK's client.music has a status method
    tasks,                  \* task_id -> record, the composition store
    voice_conversion_jobs,  \* job_id -> record, the conversion store
    uuids,                  \* how many uuid4() values have been drawn
    uploading,              \* uploads suspended at their await: job_id -> suffix
    bg,                     \* background tasks: job_id -> position and locals
    files,                  \* the paths that exist under the temp directories
    resp,                   \* the response of the handler that returned last
    request,                \* the body of the last POST /api/generate
    composition_plan        \* the plan format_composition_plan built from it

vars == <<elevenlabs_client, rvc_client, sdk, tasks, voice_conversion_jobs,
          uuids, uploading, bg, files, resp, request, composition_plan>>

compVars == <<tasks>>
convVars == <<voice_conversion_jobs, uploading, bg, files>>
envVars == <<elevenlabs_client, rvc_client, sdk>>
reqVars == <<request, composition_plan>>

----------------------------------------------------------------------------
\* Helpers on finite maps.

Put(f, k, v) == [x \in (DOMAIN f) \cup {k} |-> IF x = k THEN v ELSE f[x]]
EmptyMap == [x \in {} |-> Absent]

\* The HTTP response (or HTTPException) a handler ends with.
Response(op, id, code, status, message, audio, remote, progress) ==
    [op |-> op, id |-> id, code |-> code, status |-> status, message |-> message,
     audio |-> audio, remote |-> remote, progress |-> progress]

NoResponse == Response("none", NoId, 0, Absent, Absent, FALSE, "none", Absent)

\* The event loop is free: no background coroutine is between its first and
\* last statement.
LoopFree == \A j \in DOMAIN bg : bg[j].pc \in {"scheduled", "done", "crashed"}

----------------------------------------------------------------------------
\* Composition workflow.

\* What compose_detailed hands back: an acknowledgment with or without an id
\* and with or without the audio under `audio`; one that has no `audio`
\* attribute and carries the audio under `data` (submit never looks at `data`,
\* so one such acknowledgment, with an id, stands for them); or an exception.
Acks == [task_id : ProviderIds \cup {NoId}, audio : BOOLEAN, data : {FALSE}]
        \cup [task_id : ProviderIds, audio : {FALSE}, data : {TRUE}]
NoAck == [task_id |-> NoId, audio |-> FALSE, data |-> FALSE]
ComposeOutcomes == {[raised |-> FALSE, ack |-> a] : a \in Acks}
                   \cup {[raised |-> TRUE, ack |-> NoAck]}

compose_detailed_swallowed(out) == [raised |-> FALSE, ack |-> out.ack]

\* elevenlabs_client.py 16-27: the client hands the SDK's answer back, and
\* re-raises what the SDK call raised.
compose_detailed(out) == out

\* No request body has been posted, no plan has been built.
NoRequest == [is_instrumental |-> FALSE, vocal_gender |-> "omitted",
              lyrics |-> [kind |-> "omitted", text |-> <<>>],
              style |-> <<>>, duration_seconds |-> 0]
NoPlan == [sections |-> <<>>, positive_global_styles |-> <<>>,
           negative_global_styles |-> <<>>]

\* main.py 96-104: the id the acknowledgment carries, if any.
AckTaskId(ack) == ack.task_id

\* main.py 107-111
HasAudio(ack) == ack.audio

\* main.py 114: the branch that records the task as completed at once.
SyncCompleted(ack) == HasAudio(ack) /\ AckTaskId(ack) = NoId

\* main.py 116-121 and 133-138: the record generate_music stores.  It has no
\* 'error' key, and no handler of the composition workflow adds one.
NewTask(status, ack) ==
    [status |-> status, message |-> Absent, response |-> ack, error |-> Absent]

generate_music(out) ==
    /\ LoopFree
    /\ IF ~elevenlabs_client
       THEN /\ resp' = Response("generate_music", NoId, 500, Absent, MsgClientMissing,
                                FALSE, "none", Absent)
            /\ UNCHANGED <<tasks, uuids>>
       ELSE IF compose_detailed(out).raised
       THEN /\ resp' = Response("generate_music", NoId, 500, Absent, MsgSubmitFailed,
                                FALSE, "compose", Absent)
            /\ UNCHANGED <<tasks, uuids>>
       ELSE LET ack == compose_detailed(out).ack
                fresh == AckTaskId(ack) = NoId
                task_id == IF fresh THEN Uuid(uuids + 1) ELSE AckTaskId(ack)
                status == IF SyncCompleted(ack) THEN "completed" ELSE "pending"
            IN  /\ fresh => uuids < MaxUuid
                /\ uuids' = IF fresh THEN uuids + 1 ELSE uuids
                /\ tasks' = Put(tasks, task_id, NewTask(status, ack))
                /\ resp' = Response("generate_music", task_id, 200, status,
                                    IF status = "completed" THEN MsgCompleted ELSE MsgStarted,
                                    FALSE, "compose", Absent)
    /\ UNCHANGED <<envVars, convVars>>

\* What the provider's status endpoint answers when it answers: a status value
\* (or none at all) and, read only for a failed status, a message attribute.
StatusResponses ==
    {[status |-> s, message |-> Absent] : s \in (RemoteStatuses \cup {Absent}) \ {"failed"}}
    \cup {[status |-> "failed", message |-> m] : m \in {Absent, MsgRemote, ""}}
NoStatusResponse == [status |-> Absent, message |-> Absent]

\* The remote round trip of a status query: it answers or it raises.
StatusOutcomes == {[exc |-> "none", sr |-> r] : r \in StatusResponses}
                  \cup {[exc |-> "Exception", sr |-> NoStatusResponse]}

\* elevenlabs_client.py 34-46: without a status method in the SDK the client
\* raises NotImplementedError inside its own try, and its `except Exception`
\* re-raises whatever was raised as a plain Exception.
get_composition_status(out) ==
    LET raised == IF ~sdk.get_status THEN "NotImplementedError" ELSE out.exc
    IN  [exc |-> IF raised = "none" THEN "none" ELSE "Exception",
         cause |-> raised,
         sr |-> IF raised = "none" THEN out.sr ELSE NoStatusResponse]

IsTerminalOnlyCompleted(status) == status = "completed"

\* main.py 169
IsTerminal(status) == status \in {"completed", "failed"}

\* main.py 182-186: the status read from the answer, 'processing' without one.
ExtractStatus(sr) == IF sr.status = Absent THEN "processing" ELSE sr.status

\* main.py 189-201: the record after a status query that answered.
TaskAfterStatus(task, sr) ==
    LET new_status == ExtractStatus(sr)
    IN  [task EXCEPT !.status = new_status,
                     !.message = IF new_status = "completed" THEN MsgCompleted
                                 ELSE IF new_status = "failed"
                                      THEN (IF sr.message = Absent THEN MsgFailedDefault
                                            ELSE sr.message)
                                      ELSE @]

\* main.py 176-222: the record after the poll of a non-terminal task.  A query
\* that raised wrote nothing.
TaskAfterPoll(task, call) ==
    IF call.exc = "none" THEN TaskAfterStatus(task, call.sr) ELSE task

\* models.py 43-47: StatusResponse takes a str status.
ValidStatus(status) == status # NonString

\* main.py 209-222: the handlers of the poll's try block.
PollExceptResponse(task_id, current_status, exc, remote) ==
    IF exc = "NotImplementedError"
    THEN Response("get_status", task_id, 200, "processing", MsgNotAvailable,
                  FALSE, remote, Absent)
    ELSE IF ValidStatus(current_status)
    THEN Response("get_status", task_id, 200, current_status, MsgErrorChecking,
                  FALSE, remote, Absent)
    ELSE Response("get_status", task_id, 500, Absent, MsgInternalError,
                  FALSE, remote, Absent)

\* What the poll did remotely, for the record of the response.
RemoteOfPoll(call) ==
    IF call.cause = "none" THEN "status_answered"
    ELSE IF call.cause = "NotImplementedError" THEN "status_not_implemented"
    ELSE "status_raised"

\* main.py 203-208 with its fallback: the response of a poll that queried.
PollResponse(task_id, current_status, after, call) ==
    IF call.exc = "none" /\ ValidStatus(after.status)
    THEN Response("get_status", task_id, 200, after.status, after.message,
                  FALSE, RemoteOfPoll(call), Absent)
    ELSE PollExceptResponse(task_id, current_status, 
                            IF call.exc = "none" THEN "Exception" ELSE call.exc,
                            RemoteOfPoll(call))

\* main.py 170-174
TerminalResponse(task_id, task) ==
    Response("get_status", task_id, 200, task.status,
             IF task.message = Absent THEN "" ELSE task.message,
             FALSE, "none", Absent)

get_status(task_id, out) ==
    /\ LoopFree
    /\ IF ~elevenlabs_client
       THEN /\ resp' = Response("get_status", task_id, 500, Absent, MsgClientMissing,
                                FALSE, "none", Absent)
            /\ UNCHANGED tasks
       ELSE IF task_id \notin DOMAIN tasks
       THEN /\ resp' = Response("get_status", task_id, 404, Absent, MsgTaskNotFound,
                                FALSE, "none", Absent)
            /\ UNCHANGED tasks
       ELSE LET task == tasks[task_id]
                current_status == task.status
            IN  IF IsTerminal(current_status)
                THEN /\ resp' = TerminalResponse(task_id, task)
                     /\ UNCHANGED tasks
                ELSE LET call == get_composition_status(out)
                         after == TaskAfterPoll(task, call)
                     IN  /\ tasks' = [tasks EXCEPT ![task_id] = after]
                         /\ resp' = PollResponse(task_id, current_status, after, call)
    /\ UNCHANGED <<envVars, reqVars, convVars, uuids>>

\* The remote round trip of an audio fetch: the audio, an exception, or an SDK
\* without a fetch method.
AudioOutcomes == {"bytes", "raised", "not_implemented"}

\* elevenlabs_client.py 53-62: the client's `except Exception` turns a missing
\* SDK method and a failed call alike into a plain Exception.
get_composition_audio(out) ==
    IF out = "bytes" THEN "bytes" ELSE "raised"

NotCompletedOnlyRunning(status) == status \in {"pending", "processing"}

\* main.py 244
NotCompleted(status) == status # "completed"

StoredAudioIgnored(task) == FALSE

\* main.py 252-262: the audio embedded in the stored acknowledgment, read from
\* its `audio` or else from its `data`.
StoredAudio(task) == task.response.audio \/ task.response.data

download_music(task_id, out) ==
    /\ LoopFree
    /\ resp' =
         IF ~elevenlabs_client
         THEN Response("download_music", task_id, 500, Absent, MsgClientMissing,
                       FALSE, "none", Absent)
         ELSE IF task_id \notin DOMAIN tasks
         THEN Response("download_music", task_id, 404, Absent, MsgTaskNotFound,
                       FALSE, "none", Absent)
         ELSE IF NotCompleted(tasks[task_id].status)
         THEN Response("download_music", task_id, 400, Absent, MsgTaskNotCompleted,
                       FALSE, "none", Absent)
         ELSE IF StoredAudio(tasks[task_id])
         THEN Response("download_music", task_id, 200, Absent, Absent,
                       TRUE, "none", Absent)
         ELSE IF get_composition_audio(out) = "raised"
         THEN Response("download_music", task_id, 500, Absent, MsgRetrieveFailed,
                       FALSE, "audio_raised", Absent)
         ELSE Response("download_music", task_id, 200, Absent, Absent,
                       TRUE, "audio_answered", Absent)
    /\ UNCHANGED <<envVars, reqVars, compVars, convVars, uuids>>

----------------------------------------------------------------------------
\* The body of POST /api/generate: its validation and the plan built from it.

MaxStyleLen == 3
MaxLyricsLen == 2
MinDuration == 5
MaxDuration == 60
MsPerSecond == 1000

MsgValidation == "validation error"

\* Texts are sequences of characters.
StyleChars == {"a", "b", ",", " "}
LyricsChars == {"a", " ", "\n"}
Texts(chars, n) == UNION {[1..k -> chars] : k \in 0..n}

\* A JSON body: a field that has a default can be left out ("omitted") or be
\* null; lyrics can also be a text, vocal_gender one of the two literals.
LyricsValues ==
    {[kind |-> k, text |-> <<>>] : k \in {"omitted", "null"}}
    \cup {[kind |-> "text", text |-> t] : t \in Texts(LyricsChars, MaxLyricsLen)}
Payloads ==
    [is_instrumental : BOOLEAN,
     vocal_gender : {"omitted", "null", "male", "female"},
     lyrics : LyricsValues,
     style : Texts(StyleChars, MaxStyleLen),
     duration_seconds : {MinDuration, MaxDuration, MaxDuration + 1}]

\* str.strip(): leading and trailing whitespace removed.
Whitespace == {" ", "\n"}
RECURSIVE LStrip(_)
LStrip(s) ==
    IF s = <<>> THEN s
    ELSE IF Head(s) \in Whitespace THEN LStrip(Tail(s)) ELSE s
RECURSIVE RStrip(_)
RStrip(s) ==
    IF s = <<>> THEN s
    ELSE IF s[Len(s)] \in Whitespace THEN RStrip(SubSeq(s, 1, Len(s) - 1)) ELSE s
Strip(s) == RStrip(LStrip(s))

\* str.split(sep): the parts between the separators, empty ones included.
RECURSIVE Split(_, _)
Split(s, sep) ==
    IF \A i \in 1..Len(s) : s[i] # sep
    THEN <<s>>
    ELSE LET i == CHOOSE k \in 1..Len(s) :
                      s[k] = sep /\ \A m \in 1..(k - 1) : s[m] # sep
         IN  <<SubSeq(s, 1, i - 1)>> \o Split(SubSeq(s, i + 1, Len(s)), sep)

\* [part.strip() for part in s.split(sep) if part.strip()]
NonEmptyText(t) == t # <<>>
StrippedParts(s, sep) ==
    LET parts == Split(s, sep)
    IN  SelectSeq([i \in 1..Len(parts) |-> Strip(parts[i])], NonEmptyText)

\* models.py 12-20; pydantic runs a field validator on a value the body gives,
\* null included, and not on the default of a field the body leaves out.
validate_vocal_gender(payload) ==
    \/ payload.vocal_gender = "omitted"
    \/ /\ ~(~payload.is_instrumental /\ payload.vocal_gender = "null")
       /\ ~(payload.is_instrumental /\ payload.vocal_gender # "null")

\* models.py 22-30
validate_lyrics(payload) ==
    \/ payload.lyrics.kind = "omitted"
    \/ /\ ~(/\ ~payload.is_instrumental
            /\ \/ payload.lyrics.kind = "null"
               \/ Strip(payload.lyrics.text) = <<>>)
       /\ ~(payload.is_instrumental /\ payload.lyrics.kind # "null")

\* models.py 5-30: the request model accepts the body.
MusicGenerationRequest(payload) ==
    /\ validate_vocal_gender(payload)
    /\ validate_lyrics(payload)
    /\ Len(payload.style) >= 1
    /\ payload.duration_seconds >= MinDuration
    /\ payload.duration_seconds <= MaxDuration

positive_local_styles_unstripped(payload) == Split(payload.style, ",")

\* elevenlabs_service.py 22-26
positive_local_styles(payload) == StrippedParts(payload.style, ",")

negative_local_styles_empty(payload) == <<>>

\* elevenlabs_service.py 29-31
negative_local_styles(payload) ==
    IF payload.is_instrumental THEN <<"no vocals">> ELSE <<>>

\* elevenlabs_service.py 34-39; a lyrics field left out or null is None.
lines(payload) ==
    IF /\ ~payload.is_instrumental
       /\ payload.lyrics.kind = "text"
       /\ payload.lyrics.text # <<>>
    THEN IF StrippedParts(payload.lyrics.text, "\n") = <<>>
         THEN <<Strip(payload.lyrics.text)>>
         ELSE StrippedParts(payload.lyrics.text, "\n")
    ELSE <<>>

\* elevenlabs_service.py 42
duration_ms(payload) == payload.duration_seconds * MsPerSecond

\* elevenlabs_service.py 45-47; f"{vocal_gender} vocal"
positive_global_styles(payload) ==
    IF ~payload.is_instrumental /\ payload.vocal_gender \in {"male", "female"}
    THEN <<IF payload.vocal_gender = "male" THEN "male vocal" ELSE "female vocal">>
    ELSE <<>>

\* elevenlabs_service.py 11-64
format_composition_plan(payload) ==
    [sections |-> <<[section_name |-> "Main Theme",
                     duration_ms |-> duration_ms(payload),
                     lines |-> lines(payload),
                     positive_local_styles |-> positive_local_styles(payload),
                     negative_local_styles |-> negative_local_styles(payload)]>>,
     positive_global_styles |-> positive_global_styles(payload),
     negative_global_styles |-> <<>>]

\* main.py 75-146: FastAPI builds the request model from the body and answers
\* 422 itself when that fails; otherwise it calls the handler, which builds the
\* plan once the client check has passed.
post_generate_music(payload, out) ==
    /\ request = NoRequest
    /\ request' = payload
    /\ IF ~MusicGenerationRequest(payload)
       THEN /\ LoopFree
            /\ resp' = Response("generate_music", NoId, 422, Absent, MsgValidation,
                                FALSE, "none", Absent)
            /\ UNCHANGED <<composition_plan, tasks, uuids, envVars, convVars>>
       ELSE /\ composition_plan' = IF elevenlabs_client
                                   THEN format_composition_plan(payload)
                                   ELSE NoPlan
            /\ generate_music(out)

----------------------------------------------------------------------------
\* Conversion workflow.

MsgRvcMissing == "RVC client not initialized"
MsgStartingProcessing == "Starting processing..."
MsgConversionStarted == "Voice conversion started"
MsgStartingConversion == "Starting voice conversion..."
MsgConversionCompleted == "Voice conversion completed!"
MsgProcessingFailed == "Processing failed: captured error"
MsgStartFailed == "Failed to start processing"
MsgJobNotFound == "Job not found"
MsgJobNotCompleted == "Job not completed"
MsgOutputMissing == "Output file not found"
CapturedError == "captured error"

\* Paths under a job's temp directory.
NoPath == <<NoId, "none">>
TempDir(job_id) == <<job_id, "dir">>
InputPath(job_id, suffix) == <<job_id, "input" \o suffix>>
OutputWav(job_id) == <<job_id, "output.wav">>
OutputMp3(job_id) == <<job_id, "output.mp3">>
Suffixes == {".wav", ".mp3"}

\* What an external tool run or an engine call can end with: it succeeds, it
\* fails the way the pipeline expects of ffmpeg (CalledProcessError,
\* FileNotFoundError), or it raises anything else.
ToolOutcomes == {"ok", "unavailable", "raised"}
EngineOutcomes == {"ok", "raised"}

\* main.py 495-501
NewJob(input_file_path, temp_dir) ==
    [status |-> "pending", message |-> MsgStartingProcessing,
     input_file_path |-> input_file_path, temp_dir |-> temp_dir,
     output_path |-> NoPath, error |-> Absent]

EngineAssumed == TRUE

\* main.py 478 and rvc_client.py 66-68
EngineAvailable == rvc_client

\* main.py 478-485: the engine check, the job id and the temp directory; the
\* handler then suspends on the upload's read and write.
upload_voice_conversion(suffix) ==
    /\ LoopFree
    /\ IF ~EngineAvailable
       THEN /\ resp' = Response("upload_voice_conversion", NoId, 500, Absent,
                                MsgRvcMissing, FALSE, "none", Absent)
            /\ UNCHANGED <<uuids, uploading, files>>
       ELSE LET job_id == Uuid(uuids + 1)
            IN  /\ uuids < MaxUuid
                /\ uuids' = uuids + 1
                /\ files' = files \cup {TempDir(job_id)}
                /\ uploading' = Put(uploading, job_id, suffix)
                /\ UNCHANGED resp
    /\ UNCHANGED <<envVars, reqVars, compVars, voice_conversion_jobs, bg>>

AddTaskForgotten(tasks_, job_id, input_file_path) == tasks_

\* main.py 504-516: BackgroundTasks.add_task with the handler's locals.
AddTask(tasks_, job_id, input_file_path) ==
    Put(tasks_, job_id, [pc |-> "scheduled", input_file_path |-> input_file_path])

InsertJobSkipped(jobs, job_id, job) == jobs

\* main.py 495: the insertion into the store.
InsertJob(jobs, job_id, job) == Put(jobs, job_id, job)

RemoveTreeSkipped(paths, job_id) == paths

\* main.py 527-528: shutil.rmtree of the job's temp directory.
RemoveTree(paths, job_id) == {f \in paths : f[1] # job_id}

\* main.py 487-532: the handler resumes; the upload was written or the write
\* raised.
upload_voice_conversion_resume(job_id, written) ==
    /\ LoopFree
    /\ job_id \in DOMAIN uploading
    /\ uploading' = [x \in (DOMAIN uploading) \ {job_id} |-> uploading[x]]
    /\ LET input_file_path == InputPath(job_id, uploading[job_id])
       IN  IF written
           THEN /\ files' = files \cup {input_file_path}
                /\ voice_conversion_jobs' =
                       InsertJob(voice_conversion_jobs, job_id,
                                 NewJob(input_file_path, TempDir(job_id)))
                /\ bg' = AddTask(bg, job_id, input_file_path)
                /\ resp' = Response("upload_voice_conversion", job_id, 200, "pending",
                                    MsgConversionStarted, FALSE, "none", Absent)
           ELSE /\ files' = RemoveTree(files, job_id)
                /\ resp' = Response("upload_voice_conversion", NoId, 500, Absent,
                                    MsgStartFailed, FALSE, "none", Absent)
                /\ UNCHANGED <<voice_conversion_jobs, bg>>
    /\ UNCHANGED <<envVars, reqVars, compVars, uuids>>

FailJobLogOnly(job) == job

\* main.py 456-460
FailJob(job) ==
    [job EXCEPT !.status = "failed", !.message = MsgProcessingFailed,
                !.error = CapturedError]

\* main.py 451-453
CompleteJob(job, final_output_path) ==
    [job EXCEPT !.output_path = final_output_path, !.status = "completed",
                !.message = MsgConversionCompleted]

\* main.py 396-417: the task starts on the loop, marks the job processing and
\* normalises an input that is not a WAV file.
process_voice_conversion_start(job_id, ffmpeg) ==
    /\ LoopFree
    /\ job_id \in DOMAIN bg
    /\ bg[job_id].pc = "scheduled"
    /\ LET input_file_path == bg[job_id].input_file_path
           input_wav_path == InputPath(job_id, ".wav")
           convert == input_file_path # input_wav_path
           started == [voice_conversion_jobs[job_id] EXCEPT
                           !.status = "processing", !.message = MsgStartingConversion]
       IN  IF job_id \notin DOMAIN voice_conversion_jobs
           THEN \* KeyError at 397 and again at 458: the task dies.
                /\ bg' = [bg EXCEPT ![job_id].pc = "crashed"]
                /\ UNCHANGED <<voice_conversion_jobs, files>>
           ELSE IF convert /\ ffmpeg = "raised"
           THEN /\ voice_conversion_jobs' =
                       [voice_conversion_jobs EXCEPT ![job_id] = FailJob(started)]
                /\ bg' = [bg EXCEPT ![job_id].pc = "done"]
                /\ UNCHANGED files
           ELSE /\ voice_conversion_jobs' =
                       [voice_conversion_jobs EXCEPT ![job_id] = started]
                /\ IF convert /\ ffmpeg = "ok"
                   THEN /\ files' = files \cup {input_wav_path}
                        /\ bg' = [bg EXCEPT ![job_id] =
                                     [pc |-> "started", input_file_path |-> input_wav_path]]
                   ELSE /\ bg' = [bg EXCEPT ![job_id].pc = "started"]
                        /\ UNCHANGED files
    /\ UNCHANGED <<envVars, reqVars, compVars, uuids, uploading, resp>>

\* main.py 419-434 and rvc_client.py 105-135: the engine call.
process_voice_conversion_convert(job_id, engine) ==
    /\ job_id \in DOMAIN bg
    /\ bg[job_id].pc = "started"
    /\ IF engine = "ok"
       THEN /\ files' = files \cup {OutputWav(job_id)}
            /\ bg' = [bg EXCEPT ![job_id].pc = "converted"]
            /\ UNCHANGED voice_conversion_jobs
       ELSE /\ voice_conversion_jobs' =
                   [voice_conversion_jobs EXCEPT ![job_id] = FailJob(@)]
            /\ bg' = [bg EXCEPT ![job_id].pc = "done"]
            /\ UNCHANGED files
    /\ UNCHANGED <<envVars, reqVars, compVars, uuids, uploading, resp>>

process_voice_conversion_finish_strict(job_id, ffmpeg) ==
    /\ job_id \in DOMAIN bg
    /\ bg[job_id].pc = "converted"
    /\ bg' = [bg EXCEPT ![job_id].pc = "done"]
    /\ IF ffmpeg # "ok"
       THEN /\ voice_conversion_jobs' =
                   [voice_conversion_jobs EXCEPT ![job_id] = FailJob(@)]
            /\ UNCHANGED files
       ELSE /\ files' = files \cup {OutputMp3(job_id)}
            /\ voice_conversion_jobs' =
                   [voice_conversion_jobs EXCEPT
                        ![job_id] = CompleteJob(@, OutputMp3(job_id))]
    /\ UNCHANGED <<envVars, reqVars, compVars, uuids, uploading, resp>>

\* main.py 436-460: the re-encoding and the final writes.
process_voice_conversion_finish(job_id, ffmpeg) ==
    /\ job_id \in DOMAIN bg
    /\ bg[job_id].pc = "converted"
    /\ bg' = [bg EXCEPT ![job_id].pc = "done"]
    /\ IF ffmpeg = "raised"
       THEN /\ voice_conversion_jobs' =
                   [voice_conversion_jobs EXCEPT ![job_id] = FailJob(@)]
            /\ UNCHANGED files
       ELSE LET final_output_path ==
                    IF ffmpeg = "ok" THEN OutputMp3(job_id) ELSE OutputWav(job_id)
            IN  /\ files' = IF ffmpeg = "ok" THEN files \cup {OutputMp3(job_id)}
                            ELSE files
                /\ voice_conversion_jobs' =
                       [voice_conversion_jobs EXCEPT
                            ![job_id] = CompleteJob(@, final_output_path)]
    /\ UNCHANGED <<envVars, reqVars, compVars, uuids, uploading, resp>>

\* main.py 546-549
JobProgress(job) == IF job.status = "processing" THEN ProcessingProgress ELSE Absent

JobStatusResponseBlind(job_id) ==
    Response("get_voice_conversion_status", job_id, 200, "pending",
             MsgStartingProcessing, FALSE, "none", Absent)

\* main.py 540-556
JobStatusResponse(job_id) ==
    IF job_id \notin DOMAIN voice_conversion_jobs
    THEN Response("get_voice_conversion_status", job_id, 404, Absent, MsgJobNotFound,
                  FALSE, "none", Absent)
    ELSE LET job == voice_conversion_jobs[job_id]
         IN  Response("get_voice_conversion_status", job_id, 200, job.status,
                      job.message, FALSE, "none", JobProgress(job))

get_voice_conversion_status(job_id) ==
    /\ LoopFree
    /\ resp' = JobStatusResponse(job_id)
    /\ UNCHANGED <<envVars, reqVars, compVars, convVars, uuids>>

\* main.py 569
JobNotCompleted(status) == status # "completed"

OutputMissingOnlyUnset(job) == job.output_path = NoPath

\* main.py 575-576
OutputMissing(job) == job.output_path = NoPath \/ job.output_path \notin files

\* main.py 564-600; `read` is whether the file could be read.
JobDownloadResponse(job_id, read) ==
    IF job_id \notin DOMAIN voice_conversion_jobs
    THEN Response("download_voice_conversion", job_id, 404, Absent, MsgJobNotFound,
                  FALSE, "none", Absent)
    ELSE IF JobNotCompleted(voice_conversion_jobs[job_id].status)
    THEN Response("download_voice_conversion", job_id, 400, Absent, MsgJobNotCompleted,
                  FALSE, "none", Absent)
    ELSE IF OutputMissing(voice_conversion_jobs[job_id])
    THEN Response("download_voice_conversion", job_id, 404, Absent, MsgOutputMissing,
                  FALSE, "none", Absent)
    ELSE IF ~read
    THEN Response("download_voice_conversion", job_id, 500, Absent, MsgRetrieveFailed,
                  FALSE, "none", Absent)
    ELSE Response("download_voice_conversion", job_id, 200, Absent, Absent,
                  TRUE, "none", Absent)

download_voice_conversion_consuming(job_id, read) ==
    /\ LoopFree
    /\ resp' = JobDownloadResponse(job_id, read)
    /\ IF JobDownloadResponse(job_id, read).code = 200
       THEN /\ voice_conversion_jobs' =
                   [voice_conversion_jobs EXCEPT ![job_id].output_path = NoPath]
            /\ files' = {f \in files : f[1] # job_id}
       ELSE UNCHANGED <<voice_conversion_jobs, files>>
    /\ UNCHANGED <<envVars, reqVars, compVars, uuids, uploading, bg>>

download_voice_conversion(job_id, read) ==
    /\ LoopFree
    /\ resp' = JobDownloadResponse(job_id, read)
    /\ UNCHANGED <<envVars, reqVars, compVars, convVars, uuids>>

----------------------------------------------------------------------------
\* The process after import: both stores empty (main.py 41-42), the clients
\* constructed or not (main.py 27-38).

Init ==
    /\ elevenlabs_client \in BOOLEAN
    /\ rvc_client \in BOOLEAN
    /\ sdk \in [get_status : BOOLEAN]
    /\ tasks = EmptyMap
    /\ voice_conversion_jobs = EmptyMap
    /\ uuids = 0
    /\ uploading = EmptyMap
    /\ bg = EmptyMap
    /\ files = {}
    /\ resp = NoResponse
    /\ request = NoRequest
    /\ composition_plan = NoPlan

\* The ids a client asks about: those a store holds, and one it does not.
TaskIds == (DOMAIN tasks) \cup {UnknownId}
JobIds == (DOMAIN voice_conversion_jobs) \cup {UnknownId}

\* The background task of a job takes its next step.
PipelineStep(job_id) ==
    \/ \E ffmpeg \in ToolOutcomes : process_voice_conversion_start(job_id, ffmpeg)
    \/ \E engine \in EngineOutcomes : process_voice_conversion_convert(job_id, engine)
    \/ \E ffmpeg \in ToolOutcomes : process_voice_conversion_finish(job_id, ffmpeg)

\* The outcomes of the remote status query a poll of task_id can meet: all of
\* them where get_status makes the query (main.py 178), and where it returns
\* before the query (main.py 155-174) a single one, which it never looks at.
StatusOutcomesAt(task_id) ==
    IF /\ elevenlabs_client
       /\ task_id \in DOMAIN tasks
       /\ ~IsTerminal(tasks[task_id].status)
    THEN StatusOutcomes
    ELSE {[exc |-> "Exception", sr |-> NoStatusResponse]}

\* The same for the remote audio fetch of download_music (main.py 265-266).
AudioOutcomesAt(task_id) ==
    IF /\ elevenlabs_client
       /\ task_id \in DOMAIN tasks
       /\ ~NotCompleted(tasks[task_id].status)
       /\ ~StoredAudio(tasks[task_id])
    THEN AudioOutcomes
    ELSE {"raised"}

\* The routes of the composition workflow.
MusicNext ==
    \/ \E out \in ComposeOutcomes : generate_music(out) /\ UNCHANGED reqVars
    \/ \E task_id \in TaskIds :
           \E out \in StatusOutcomesAt(task_id) : get_status(task_id, out)
    \/ \E task_id \in TaskIds :
           \E out \in AudioOutcomesAt(task_id) : download_music(task_id, out)

\* The routes of the conversion workflow and its background task.
VoiceConversionNext ==
    \/ \E suffix \in Suffixes : upload_voice_conversion(suffix)
    \/ \E job_id \in UuidIds, written \in BOOLEAN :
           upload_voice_conversion_resume(job_id, written)
    \/ \E job_id \in UuidIds : PipelineStep(job_id)
    \/ \E job_id \in JobIds : get_voice_conversion_status(job_id)
    \/ \E job_id \in JobIds, read \in BOOLEAN : download_voice_conversion(job_id, read)

Next == MusicNext \/ VoiceConversionNext

Spec == Init /\ [][Next]_vars

\* The conversion workflow with a background task that runs: Starlette runs a
\* task added with add_task once the response is sent (main.py 504-516), and
\* the coroutine has no await, so each of its calls returns or raises and the
\* next statement follows (main.py 396-460).
VoiceConversionFairSpec ==
    /\ Init
    /\ [][VoiceConversionNext]_vars
    /\ \A job_id \in UuidIds : WF_vars(PipelineStep(job_id))

\* Something outside the program removes a job's temp directory with what is
\* in it (the directories are made by tempfile.mkdtemp under the system's temp
\* directory, main.py 485); download_voice_conversion tests for the output
\* with os.path.exists (main.py 576).
TempDirRemoved(job_id) ==
    /\ \E f \in files : f[1] = job_id
    /\ files' = {f \in files : f[1] # job_id}
    /\ UNCHANGED <<envVars, reqVars, compVars, voice_conversion_jobs, uuids, uploading, bg, resp>>

\* The conversion workflow on a disk whose temp directories can disappear.
VoiceConversionDiskNext ==
    \/ VoiceConversionNext
    \/ \E job_id \in UuidIds : TempDirRemoved(job_id)

VoiceConversionDiskSpec == Init /\ [][VoiceConversionDiskNext]_vars

\* One POST /api/generate with a body drawn from Payloads; the engine and the
\* SDK's status method play no part in it.
RequestInit == Init /\ ~rvc_client /\ ~sdk.get_status

RequestNext ==
    /\ request = NoRequest
    /\ \E payload \in Payloads, out \in ComposeOutcomes :
           post_generate_music(payload, out)

RequestSpec == RequestInit /\ [][RequestNext]_vars

----------------------------------------------------------------------------
\* Properties.

SubmitOps == {"generate_music", "upload_voice_conversion"}
PollOps == {"get_status", "get_voice_conversion_status"}

\* pending < processing < completed, pending < processing < failed
StatusLeq(a, b) ==
    \/ a = b
    \/ a = "pending" /\ b \in {"processing", "completed", "failed"}
    \/ a = "processing" /\ b \in {"completed", "failed"}

\* C1: the statuses two successive polls of one job report never rewind: the
\* later one is the earlier one or comes after it in
\* pending < processing < {completed, failed}.
C1_PollStatusNeverRewinds ==
    [][(/\ resp.op \in PollOps /\ resp.code = 200
        /\ resp'.op = resp.op /\ resp'.code = 200 /\ resp'.id = resp.id)
       => StatusLeq(resp.status, resp'.status)]_vars

\* C2: a stored status of completed or failed is absorbing: no step changes the
\* status of a record that holds one, in either store.
C2_TerminalAbsorbing ==
    [][/\ \A id \in DOMAIN tasks :
              tasks[id].status \in {"completed", "failed"}
              => tasks'[id].status = tasks[id].status
       /\ \A id \in DOMAIN voice_conversion_jobs :
              voice_conversion_jobs[id].status \in {"completed", "failed"}
              => voice_conversion_jobs'[id].status = voice_conversion_jobs[id].status]_vars

\* C3: a successful submit returns an id no record of its store holds yet, so
\* it never replaces a record.
C3_SubmitIdFresh ==
    [][/\ (/\ resp'.op = "generate_music" /\ resp'.code = 200
           /\ \E out \in ComposeOutcomes : generate_music(out))
          => resp'.id \notin DOMAIN tasks
       /\ (/\ resp'.op = "upload_voice_conversion" /\ resp'.code = 200
           /\ \E j \in UuidIds, w \in BOOLEAN : upload_voice_conversion_resume(j, w))
          => resp'.id \notin DOMAIN voice_conversion_jobs]_vars

\* C4: the id a successful submit returned is in its store, the poll that
\* follows the submit does not answer 404, and every scheduled or running
\* background task has its record.
C4_Resolvable ==
    /\ resp.op = "generate_music" /\ resp.code = 200 => resp.id \in DOMAIN tasks
    /\ resp.op = "upload_voice_conversion" /\ resp.code = 200
       => /\ resp.id \in DOMAIN voice_conversion_jobs
          /\ JobStatusResponse(resp.id).code = 200
    /\ \A j \in DOMAIN bg : j \in DOMAIN voice_conversion_jobs /\ bg[j].pc # "crashed"

C4_SubmitThenPoll ==
    [][(/\ resp.op \in SubmitOps /\ resp.code = 200
        /\ resp'.op \in PollOps /\ resp'.id = resp.id)
       => resp'.code # 404]_vars

C4_SubmittedIsResolvable == []C4_Resolvable /\ C4_SubmitThenPoll

C4_Witness ==
    /\ resp.op = "upload_voice_conversion" /\ resp.code = 200
    /\ resp.id \in DOMAIN bg /\ bg[resp.id].pc = "scheduled"
    /\ \E id \in DOMAIN tasks : tasks[id].status = "pending"

\* C5: a record holds an artifact reference (the audio embedded in a task's
\* acknowledgment, a job's output_path) exactly when its status is completed.
C5_ArtifactIffCompleted ==
    /\ \A id \in DOMAIN tasks :
           tasks[id].response.audio <=> tasks[id].status = "completed"
    /\ \A id \in DOMAIN voice_conversion_jobs :
           voice_conversion_jobs[id].output_path # NoPath
           <=> voice_conversion_jobs[id].status = "completed"

\* C6: a fetch of a job that is in its store with a status other than
\* completed answers 400 and carries no audio, in both workflows.
C6_FetchNotReady ==
    [][/\ \A id \in DOMAIN tasks :
              (/\ tasks[id].status # "completed"
               /\ elevenlabs_client
               /\ resp'.op = "download_music" /\ resp'.id = id
               /\ \E out \in AudioOutcomes : download_music(id, out))
              => resp'.code = 400 /\ ~resp'.audio
       /\ \A id \in DOMAIN voice_conversion_jobs :
              (/\ voice_conversion_jobs[id].status # "completed"
               /\ resp'.op = "download_voice_conversion" /\ resp'.id = id
               /\ \E read \in BOOLEAN : download_voice_conversion(id, read))
              => resp'.code = 400 /\ ~resp'.audio]_vars

C6_Witness ==
    /\ resp.op = "download_music" /\ resp.code = 400
    /\ resp.id \in DOMAIN tasks /\ tasks[resp.id].status = "failed"

\* C7: when the remote status query raises during the poll of a task that is
\* not terminal, the store is left as it was and the poll answers 200 with the
\* stored status and the advisory error message.
C7_PollErrorAbsorbed ==
    [][\A id \in DOMAIN tasks :
           (/\ tasks[id].status \notin {"completed", "failed"}
            /\ elevenlabs_client
            /\ resp'.op = "get_status" /\ resp'.id = id
            /\ resp'.remote = "status_raised"
            /\ \E out \in StatusOutcomes : get_status(id, out))
           => /\ tasks' = tasks
              /\ resp'.code = 200
              /\ resp'.status = tasks[id].status
              /\ resp'.message = MsgErrorChecking]_vars

\* C8: every status a composition record stores, and every status a
\* composition poll reports, is one of pending, processing, completed, failed.
C8_FourStatuses ==
    /\ \A id \in DOMAIN tasks : tasks[id].status \in KnownStatuses
    /\ resp.op = "get_status" /\ resp.code = 200 => resp.status \in KnownStatuses

\* C9: a poll of a non-terminal task against an SDK without a status method
\* answers 200 with status processing and an explanatory message.
C9_NotImplementedIsProcessing ==
    resp.op = "get_status" /\ resp.remote = "status_not_implemented"
    => resp.code = 200 /\ resp.status = "processing" /\ resp.message = MsgNotAvailable

\* C10: the poll of a task whose stored status is completed or failed answers
\* that status, queries nothing remotely and leaves the store as it was.
C10_TerminalPollIsLocal ==
    [][\A id \in DOMAIN tasks :
           (/\ tasks[id].status \in {"completed", "failed"}
            /\ elevenlabs_client
            /\ resp'.op = "get_status" /\ resp'.id = id
            /\ \E out \in StatusOutcomes : get_status(id, out))
           => /\ resp'.code = 200
              /\ resp'.status = tasks[id].status
              /\ resp'.remote = "none"
              /\ tasks' = tasks]_vars

C10_Witness ==
    /\ resp.op = "get_status" /\ resp.code = 200 /\ resp.remote = "none"
    /\ resp.id \in DOMAIN tasks /\ tasks[resp.id].status = "failed"

\* C11: a successful composition submit stores completed whenever the
\* acknowledgment it stored contains the audio, and pending whenever that
\* acknowledgment has an id and no audio; the status it answers is the status
\* it stored.
C11_SubmitStatusFollowsAck ==
    resp.op = "generate_music" /\ resp.code = 200
    => /\ resp.id \in DOMAIN tasks
       /\ LET task == tasks[resp.id]
          IN  /\ task.response.audio => task.status = "completed"
              /\ task.response.task_id # NoId /\ ~task.response.audio
                 => task.status = "pending"
              /\ resp.status = task.status

\* C12: when the provider call raises during a composition submit, the submit
\* answers the request-level error 500 without a job id and the composition
\* store is left as it was.
C12_SubmitProviderFailure ==
    [][\A out \in ComposeOutcomes :
           (/\ out.raised
            /\ elevenlabs_client
            /\ resp'.op = "generate_music"
            /\ generate_music(out))
           => /\ resp'.code = 500
              /\ resp'.id = NoId
              /\ resp'.message = MsgSubmitFailed
              /\ tasks' = tasks]_vars

C12_Witness ==
    /\ resp.op = "generate_music" /\ resp.code = 500 /\ resp.remote = "compose"
    /\ \E id \in DOMAIN tasks : tasks[id].status = "pending"

\* C13: when a stage of the background pipeline raises (the normalisation of
\* an input that is not WAV, the engine, the re-encoding), the step ends with
\* the job's record failed, its message and error carrying the captured error,
\* and the task finished rather than dead of an exception.
C13_PipelineFailureRecorded ==
    [][\A j \in DOMAIN bg :
           (\/ /\ bg[j].pc = "scheduled"
               /\ bg[j].input_file_path # InputPath(j, ".wav")
               /\ process_voice_conversion_start(j, "raised")
            \/ /\ bg[j].pc = "started"
               /\ process_voice_conversion_convert(j, "raised")
            \/ /\ bg[j].pc = "converted"
               /\ process_voice_conversion_finish(j, "raised"))
           => /\ voice_conversion_jobs'[j].status = "failed"
              /\ voice_conversion_jobs'[j].message = MsgProcessingFailed
              /\ voice_conversion_jobs'[j].error = CapturedError
              /\ bg'[j].pc = "done"]_vars

C13_Witness ==
    \E j \in DOMAIN voice_conversion_jobs :
        /\ voice_conversion_jobs[j].status = "failed"
        /\ voice_conversion_jobs[j].error = CapturedError
        /\ OutputWav(j) \in files
        /\ bg[j].pc = "done"

\* C14: once a job is failed, the uploaded input file in its temp directory is
\* gone.
C14_FailedJobInputRemoved ==
    \A j \in DOMAIN voice_conversion_jobs :
        voice_conversion_jobs[j].status = "failed"
        => voice_conversion_jobs[j].input_file_path \notin files

\* C15: every job in the conversion store eventually has status completed or
\* failed, provided every background task that can take a step eventually
\* takes one.
C15_JobsTerminate ==
    \A j \in UuidIds :
        (j \in DOMAIN voice_conversion_jobs)
        ~> (/\ j \in DOMAIN voice_conversion_jobs
            /\ voice_conversion_jobs[j].status \in {"completed", "failed"})

C15_Witness ==
    \E j \in DOMAIN voice_conversion_jobs :
        /\ voice_conversion_jobs[j].status = "completed"
        /\ voice_conversion_jobs[j].output_path \in files
        /\ bg[j].pc = "done"

\* C16: requests are answered while a pipeline is in progress: whenever the
\* background task of a job is between its first and its last statement, a
\* poll of that job and a submit can be answered in that very state.
C16_RequestsAnsweredDuringPipeline ==
    \A j \in DOMAIN bg :
        bg[j].pc \in {"started", "converted"}
        => /\ ENABLED get_voice_conversion_status(j)
           /\ ENABLED (\E out \in ComposeOutcomes : generate_music(out))

\* C17: in both stores a record's error field is set exactly when its status
\* is failed.
C17_ErrorIffFailed ==
    /\ \A id \in DOMAIN tasks :
           tasks[id].error # Absent <=> tasks[id].status = "failed"
    /\ \A id \in DOMAIN voice_conversion_jobs :
           voice_conversion_jobs[id].error # Absent
           <=> voice_conversion_jobs[id].status = "failed"

\* The code a read handler answered for an id its store does not hold, and
\* both stores left as they were.
AbsentIdAnswered(code) ==
    /\ resp'.code = code
    /\ tasks' = tasks
    /\ voice_conversion_jobs' = voice_conversion_jobs

\* The step is a composition poll or fetch of an id absent from tasks.
AbsentTaskRead(id) ==
    /\ id \notin DOMAIN tasks
    /\ resp'.id = id
    /\ \/ /\ resp'.op = "get_status"
          /\ \E out \in StatusOutcomes : get_status(id, out)
       \/ /\ resp'.op = "download_music"
          /\ \E out \in AudioOutcomes : download_music(id, out)

\* The step is a conversion poll or fetch of an id absent from the job store.
AbsentJobRead(id) ==
    /\ id \notin DOMAIN voice_conversion_jobs
    /\ resp'.id = id
    /\ \/ /\ resp'.op = "get_voice_conversion_status"
          /\ get_voice_conversion_status(id)
       \/ /\ resp'.op = "download_voice_conversion"
          /\ \E read \in BOOLEAN : download_voice_conversion(id, read)

\* C18 as stated: a poll or a fetch of an id absent from its workflow's store
\* answers 404 on both workflows and leaves both stores as they were.
C18_AbsentIdNotFound_Original ==
    [][/\ \A id \in TaskIds : AbsentTaskRead(id) => AbsentIdAnswered(404)
       /\ \A id \in JobIds : AbsentJobRead(id) => AbsentIdAnswered(404)]_vars

\* C18: a poll or a fetch of an id absent from its workflow's store leaves
\* both stores as they were; it answers 404 on the conversion workflow, and on
\* the composition workflow 404 when the ElevenLabs client was constructed and
\* 500 when it was not.
C18_AbsentIdNotFound ==
    [][/\ \A id \in TaskIds :
              AbsentTaskRead(id)
              => AbsentIdAnswered(IF elevenlabs_client THEN 404 ELSE 500)
       /\ \A id \in JobIds : AbsentJobRead(id) => AbsentIdAnswered(404)]_vars

C18_Witness ==
    /\ resp.op = "download_music" /\ resp.code = 404 /\ resp.id = UnknownId
    /\ \E id \in DOMAIN tasks : tasks[id].status = "completed"
    /\ DOMAIN voice_conversion_jobs # {}

\* C19: the fetch of a completed task asks the provider for the audio exactly
\* when the stored acknowledgment holds none (neither under `audio` nor under
\* `data`); a fetch served from the acknowledgment answers 200 with the audio,
\* and when the remote fetch raises the answer is 500 without audio and the
\* store is left as it was.
C19_RemoteFetchOnlyWhenNeeded ==
    [][\A id \in DOMAIN tasks :
           (/\ tasks[id].status = "completed"
            /\ resp'.op = "download_music" /\ resp'.id = id
            /\ \E out \in AudioOutcomes : download_music(id, out))
           => /\ resp'.remote # "none"
                 <=> ~(tasks[id].response.audio \/ tasks[id].response.data)
              /\ resp'.remote = "none" => resp'.code = 200 /\ resp'.audio
              /\ resp'.remote = "audio_raised"
                 => /\ resp'.code = 500
                    /\ ~resp'.audio
              /\ tasks' = tasks]_vars

C19_Witness ==
    /\ resp.op = "download_music" /\ resp.code = 500 /\ resp.remote = "audio_raised"
    /\ resp.id \in DOMAIN tasks /\ tasks[resp.id].status = "completed"
    /\ \E id \in DOMAIN tasks : tasks[id].response.data

\* C20: without a loaded engine a conversion submit answers 500 with the
\* engine-missing message and no job id, and allocates nothing: no id is
\* drawn, no temp directory or file is created, no record is inserted, no
\* upload is pending and no background task is scheduled.
C20_EngineMissingAllocatesNothing ==
    [][\A suffix \in Suffixes :
           (~rvc_client /\ upload_voice_conversion(suffix))
           => /\ resp'.op = "upload_voice_conversion"
              /\ resp'.code = 500
              /\ resp'.message = MsgRvcMissing
              /\ resp'.id = NoId
              /\ files' = files
              /\ voice_conversion_jobs' = voice_conversion_jobs
              /\ bg' = bg
              /\ uploading' = uploading
              /\ uuids' = uuids]_vars

C20_Witness ==
    /\ ~rvc_client
    /\ resp.op = "upload_voice_conversion" /\ resp.code = 500
    /\ resp.message = MsgRvcMissing
    /\ files = {} /\ DOMAIN voice_conversion_jobs = {} /\ DOMAIN bg = {}
    /\ DOMAIN tasks # {}

\* The step is a conversion poll, a conversion fetch or a composition fetch.
ReadStep ==
    \/ /\ resp'.op = "get_voice_conversion_status"
       /\ \E id \in JobIds : get_voice_conversion_status(id)
    \/ /\ resp'.op = "download_voice_conversion"
       /\ \E id \in JobIds, read \in BOOLEAN : download_voice_conversion(id, read)
    \/ /\ resp'.op = "download_music"
       /\ \E id \in TaskIds, out \in AudioOutcomes : download_music(id, out)

\* C21: a conversion poll, a conversion fetch and a composition fetch leave
\* both stores as they were; a conversion record that is in the store changes
\* only in a step of its own background task; a conversion poll of a stored
\* job reports the progress value when the stored status is processing and
\* none otherwise, and so does the progress computed for a record of each of
\* the four statuses.
C21_ReadsArePure ==
    /\ \A s \in KnownStatuses :
           JobProgress([NewJob(NoPath, NoPath) EXCEPT !.status = s])
           = IF s = "processing" THEN ProcessingProgress ELSE Absent
    /\ [][/\ ReadStep
              => tasks' = tasks /\ voice_conversion_jobs' = voice_conversion_jobs
          /\ \A j \in DOMAIN voice_conversion_jobs :
                 (j \notin DOMAIN voice_conversion_jobs'
                  \/ voice_conversion_jobs'[j] # voice_conversion_jobs[j])
                 => j \in UuidIds /\ PipelineStep(j)
          /\ \A j \in DOMAIN voice_conversion_jobs :
                 (/\ resp'.op = "get_voice_conversion_status" /\ resp'.id = j
                  /\ get_voice_conversion_status(j))
                 => resp'.progress =
                        IF voice_conversion_jobs[j].status = "processing"
                        THEN ProcessingProgress ELSE Absent]_vars

C21_Witness ==
    /\ resp.op = "get_voice_conversion_status" /\ resp.code = 200
    /\ resp.status = "pending" /\ resp.progress = Absent
    /\ resp.id \in DOMAIN bg /\ bg[resp.id].pc = "scheduled"

\* C22: the fetch of a completed conversion job whose output_path is unset or
\* names no existing file answers 404 with the output-missing message and no
\* audio.
C22_ArtifactMissing ==
    [][\A j \in DOMAIN voice_conversion_jobs :
           (/\ voice_conversion_jobs[j].status = "completed"
            /\ \/ voice_conversion_jobs[j].output_path = NoPath
               \/ voice_conversion_jobs[j].output_path \notin files
            /\ resp'.op = "download_voice_conversion" /\ resp'.id = j
            /\ \E read \in BOOLEAN : download_voice_conversion(j, read))
           => /\ resp'.code = 404
              /\ resp'.message = MsgOutputMissing
              /\ ~resp'.audio]_vars

C22_Witness ==
    /\ resp.op = "download_voice_conversion" /\ resp.code = 404
    /\ resp.message = MsgOutputMissing
    /\ resp.id \in DOMAIN voice_conversion_jobs
    /\ voice_conversion_jobs[resp.id].status = "completed"
    /\ voice_conversion_jobs[resp.id].output_path \notin files

\* The body request was posted and answered.
Posted == request # NoRequest

\* C23: a posted body with is_instrumental true and a non-empty lyrics text,
\* or with is_instrumental false and lyrics left out, null or blank, is
\* answered 422, and no plan is built and no task stored for it.
C23_ValidationRejects ==
    (/\ Posted
     /\ \/ /\ request.is_instrumental
           /\ request.lyrics.kind = "text"
           /\ request.lyrics.text # <<>>
        \/ /\ ~request.is_instrumental
           /\ \/ request.lyrics.kind \in {"omitted", "null"}
              \/ \A i \in 1..Len(request.lyrics.text) :
                     request.lyrics.text[i] \in {" ", "\n"})
    => /\ resp.code = 422
       /\ composition_plan = NoPlan
       /\ DOMAIN tasks = {}

\* The posted body passed validation and the handler built its plan.
PlanBuilt == Posted /\ resp.code # 422 /\ elevenlabs_client

\* The entries of a sequence.
Entries(seq) == {seq[i] : i \in 1..Len(seq)}

\* C24: the plan built for an accepted instrumental request has exactly one
\* section, with duration_ms = duration_seconds * 1000, no lines and "no vocals"
\* among its negative_local_styles, and has no positive_global_styles.
C24_InstrumentalPlan ==
    PlanBuilt /\ request.is_instrumental
    => /\ Len(composition_plan.sections) = 1
       /\ composition_plan.sections[1].duration_ms = request.duration_seconds * 1000
       /\ composition_plan.sections[1].lines = <<>>
       /\ "no vocals" \in Entries(composition_plan.sections[1].negative_local_styles)
       /\ composition_plan.positive_global_styles = <<>>

C24_Witness ==
    /\ PlanBuilt /\ request.is_instrumental /\ resp.code = 200
    /\ composition_plan.sections[1].duration_ms = 60000
    /\ Len(composition_plan.sections[1].positive_local_styles) = 2

\* C25: the plan built for an accepted non-instrumental request with a lyrics
\* text and no vocal_gender field has the entry "vocals" among its
\* positive_global_styles and no "no vocals" among its section's
\* negative_local_styles.
C25_VocalsInGlobalStyles ==
    (/\ PlanBuilt /\ ~request.is_instrumental
     /\ request.vocal_gender = "omitted"
     /\ request.lyrics.kind = "text")
    => /\ "vocals" \in Entries(composition_plan.positive_global_styles)
       /\ "no vocals" \notin Entries(composition_plan.sections[1].negative_local_styles)

\* The trimmed non-empty parts of text s between the separators sep, as pairs
\* of positions: a part starts and ends at a character that is not a blank,
\* holds no separator, and has only blanks between it and the separators (or
\* the ends of s) around it.
TrimmedParts(s, sep) ==
    {t \in (1..Len(s)) \X (1..Len(s)) :
        /\ t[1] <= t[2]
        /\ \A k \in t[1]..t[2] : s[k] # sep
        /\ s[t[1]] \notin {" ", "\n"} /\ s[t[2]] \notin {" ", "\n"}
        /\ \A k \in 1..(t[1] - 1) :
               (\A m \in k..(t[1] - 1) : s[m] # sep) => s[k] \in {" ", "\n"}
        /\ \A k \in (t[2] + 1)..Len(s) :
               (\A m \in (t[2] + 1)..k : s[m] # sep) => s[k] \in {" ", "\n"}}

\* seq lists the trimmed non-empty parts of s, in their order in s.
ListsTrimmedParts(seq, s, sep) ==
    /\ Len(seq) = Cardinality(TrimmedParts(s, sep))
    /\ \A t \in TrimmedParts(s, sep) :
           seq[Cardinality({u \in TrimmedParts(s, sep) : u[1] < t[1]}) + 1]
           = SubSeq(s, t[1], t[2])

\* The posted body is an accepted non-instrumental one whose lyrics are a text
\* of a single line, and its plan was built.
SingleLinePlanBuilt ==
    /\ PlanBuilt /\ ~request.is_instrumental
    /\ request.lyrics.kind = "text"
    /\ \A i \in 1..Len(request.lyrics.text) : request.lyrics.text[i] # "\n"

\* C26 as stated: the plan of a non-instrumental request with single-line
\* lyrics has one section with duration_ms = duration_seconds * 1000, lines
\* holding the lyrics as its one entry, and positive_local_styles listing the
\* trimmed non-empty comma-separated parts of the style in order.
C26_SingleLinePlan_Original ==
    SingleLinePlanBuilt
    => /\ Len(composition_plan.sections) = 1
       /\ composition_plan.sections[1].duration_ms = request.duration_seconds * 1000
       /\ composition_plan.sections[1].lines = <<request.lyrics.text>>
       /\ ListsTrimmedParts(composition_plan.sections[1].positive_local_styles,
                            request.style, ",")

\* C26: the same, with lines holding as its one entry the lyrics without the
\* blanks before and after them.
C26_SingleLinePlan ==
    SingleLinePlanBuilt
    => /\ Len(composition_plan.sections) = 1
       /\ composition_plan.sections[1].duration_ms = request.duration_seconds * 1000
       /\ Len(composition_plan.sections[1].lines) = 1
       /\ ListsTrimmedParts(composition_plan.sections[1].lines,
                            request.lyrics.text, "\n")
       /\ ListsTrimmedParts(composition_plan.sections[1].positive_local_styles,
                            request.style, ",")

C26_Witness ==
    /\ SingleLinePlanBuilt /\ resp.code = 200
    /\ request.lyrics.text = <<" ", "a">>
    /\ composition_plan.sections[1].lines = <<<<"a">>>>
    /\ request.style = <<"b", ",", "a">>
    /\ composition_plan.sections[1].positive_local_styles = <<<<"b">>, <<"a">>>>

\* C27: get_status runs from its read of the stored status to its write
\* without a suspension point, so polls of one task take effect one after the
\* other; once a poll has queried the provider and written completed or
\* failed, the poll of that task that follows it writes nothing: the record
\* keeps its status and the poll answers it.
C27_PollsDoNotLoseUpdates ==
    [][\A id \in DOMAIN tasks :
           (/\ resp.op = "get_status" /\ resp.id = id
            /\ resp.remote = "status_answered"
            /\ resp.status \in {"completed", "failed"}
            /\ resp'.op = "get_status" /\ resp'.id = id
            /\ \E out \in StatusOutcomes : get_status(id, out))
           => /\ tasks'[id] = tasks[id]
              /\ tasks'[id].status = resp.status
              /\ resp'.status = resp.status]_vars

C27_Witness ==
    /\ resp.op = "get_status" /\ resp.code = 200 /\ resp.remote = "none"
    /\ resp.id \in DOMAIN tasks /\ tasks[resp.id].status = "completed"
    /\ ~tasks[resp.id].response.audio

\* C28: when the write of the upload raises, the handler ends with the job's
\* temp directory and everything in it removed, no record and no background
\* task for the job id, and the answer 500 without a job id.
C28_UploadFailureCleansUp ==
    [][\A j \in DOMAIN uploading :
           upload_voice_conversion_resume(j, FALSE)
           => /\ \A f \in files' : f[1] # j
              /\ j \notin DOMAIN voice_conversion_jobs'
              /\ j \notin DOMAIN bg'
              /\ resp'.op = "upload_voice_conversion"
              /\ resp'.code = 500
              /\ resp'.message = MsgStartFailed
              /\ resp'.id = NoId]_vars

C28_Witness ==
    /\ resp.op = "upload_voice_conversion" /\ resp.code = 500
    /\ resp.message = MsgStartFailed
    /\ uuids = 1 /\ files = {}
    /\ DOMAIN voice_conversion_jobs = {} /\ DOMAIN bg = {}

\* C29: a transcoding step whose tool is absent or exits with an error does
\* not fail the job: after such a normalisation the job is processing and the
\* task goes on to the engine with the uploaded file, no converted input
\* having been made; after such a re-encoding the job is completed with the
\* engine's WAV output as its output_path.
C29_TranscoderFailureSwallowed ==
    [][\A j \in DOMAIN bg :
           /\ (/\ bg[j].pc = "scheduled"
               /\ process_voice_conversion_start(j, "unavailable"))
              => /\ voice_conversion_jobs'[j].status = "processing"
                 /\ bg'[j].pc = "started"
                 /\ bg'[j].input_file_path = voice_conversion_jobs[j].input_file_path
                 /\ files' = files
           /\ (/\ bg[j].pc = "converted"
               /\ process_voice_conversion_finish(j, "unavailable"))
              => /\ voice_conversion_jobs'[j].status = "completed"
                 /\ voice_conversion_jobs'[j].output_path = OutputWav(j)
                 /\ OutputWav(j) \in files'
                 /\ bg'[j].pc = "done"]_vars

C29_Witness ==
    \E j \in DOMAIN voice_conversion_jobs :
        /\ voice_conversion_jobs[j].status = "completed"
        /\ voice_conversion_jobs[j].output_path = OutputWav(j)
        /\ voice_conversion_jobs[j].input_file_path = InputPath(j, ".mp3")
        /\ bg[j].input_file_path = InputPath(j, ".mp3")
        /\ bg[j].pc = "done"

\* A message that says something: present and not the empty string.
HumanReadable(message) == message \notin {Absent, ""}

\* C30: every record with status failed, of a composition or of a conversion,
\* carries a non-empty message, and every status response that reports failed
\* carries a non-empty message.
C30_FailedCarriesMessage ==
    /\ \A t \in DOMAIN tasks :
           tasks[t].status = "failed" => HumanReadable(tasks[t].message)
    /\ \A j \in DOMAIN voice_conversion_jobs :
           voice_conversion_jobs[j].status = "failed"
               => HumanReadable(voice_conversion_jobs[j].message)
    /\ (/\ resp.op \in {"get_status", "get_voice_conversion_status"}
        /\ resp.code = 200
        /\ resp.status = "failed")
           => HumanReadable(resp.message)

\* C31: a composition poll of a stored task that answers with a status answers
\* the status its record holds when the poll returns, whichever path the poll
\* took.
C31_PollStatusIsStoredStatus ==
    [][\A task_id \in DOMAIN tasks :
           (/\ elevenlabs_client
            /\ \E out \in StatusOutcomes : get_status(task_id, out)
            /\ resp'.code = 200)
               => resp'.status = tasks'[task_id].status]_vars


====
